---------------------------- MODULE Spec2Model ----------------------------
(***************************************************************************)
(* State-machine model of the two screens of the product-description       *)
(* client: the Draft Session (component Generation, src/unnamed/part_000)  *)
(* and the History screen (component History, src/unnamed/part_001).       *)
(*                                                                         *)
(* Every useState cell of a component is a variable.  A handler that       *)
(* awaits a service call is split at the await: the part before it is one  *)
(* action (it puts a call record in flight), and each way the call can     *)
(* settle is another action.  The user reaches a handler only through the  *)
(* control the render function shows for it, so every user action carries  *)
(* the render condition of its control as guard.                           *)
(***************************************************************************)
EXTENDS Naturals, Sequences, FiniteSets, TLC

(***************************************************************************)
(* Bounds of the model.                                                    *)
(***************************************************************************)
\* Image files admitted over one behaviour (each File object has its identity).
MaxFiles == 6
\* Largest batch of files one file-picker event delivers.
MaxBatch == 2
\* Preview readers running at one time.
MaxPending == 2
\* Generated results told apart at one time: the one shown and those a save
\* call in flight still carries.
MaxGen == 2
\* Calls of one kind that no busy flag limits (getHistory, save-update), or
\* made past the control that guards them, in flight at one time.
MaxCalls == 1
\* Clicks on Save Update whose calls are open at one time, where the clicks
\* are repeated while a call is open.
MaxClicks == 2

(***************************************************************************)
(* Program constants.                                                      *)
(***************************************************************************)
\* The attachment limit of handleImageChange.
MaxImages == 5

\* The MIME types of the files a picker event can deliver, as <<type, subtype>>.
MimeTypes == {<<"image", "png">>, <<"application", "pdf">>}

\* What the user can put in each field of the draft form: '' (the field left
\* or made empty, or the "Select ..." option) and the values of the spec's
\* scenarios.
FieldValues ==
  [product_name     |-> {"", "Mug"},
   product_category |-> {"", "Home & Garden"},
   target_audience  |-> {"", "adults"},
   user_description |-> {"", "sturdy"},
   target_language  |-> {"", "English", "Spanish"}]

\* The texts the Generation Service can return.
Texts == {"A sturdy ceramic mug...", "Una taza resistente..."}

\* The error messages a failing service can report ("" : it reports none).
Reported == {"", "quota exceeded"}

\* null, for a record id (the ids of records are 1, 2, ...).
NoId == 0

\* The largest number of language slots and of languages of one translate.
MaxSlots == 3

\* Two records of the history list, as the Persistence Service returns them.
RecordA ==
  [id |-> 1, product_name |-> "Mug", product_category |-> "Home & Garden",
   target_audience |-> "adults", user_description |-> "sturdy",
   target_language |-> "English", image_urls |-> <<"mug.png">>,
   final_description |-> "A sturdy ceramic mug..."]

RecordB ==
  [id |-> 2, product_name |-> "Lamp", product_category |-> "Home & Garden",
   target_audience |-> "adults", user_description |-> "",
   target_language |-> "English", image_urls |-> <<>>,
   final_description |-> "A bright desk lamp..."]

\* The fields of a record the edit form holds.
EditFields ==
  {"product_category", "target_audience", "user_description", "target_language"}

\* What the user can put in each control of the edit form: the option of a
\* select that the records hold, '' in the textarea, another language in the
\* text input.
EditValues ==
  [product_category |-> {"Home & Garden"},
   target_audience  |-> {"adults"},
   user_description |-> {""},
   target_language  |-> {"Spanish"}]

\* A string of a language slot, as the sequence of its pieces: a piece is a
\* blank (" ") or a word.  '' is <<>>.
SlotTexts == {<<>>, <<" ">>, <<" ", "French">>, <<"German", " ">>}

\* The texts the Translation Service can return for a language.
Translated == {"version 1", "version 2"}

VARIABLES
  \* ---- shared ----
  isAuthenticated,  \* useAuth().isAuthenticated
  \* ---- Draft Session (Generation component) ----
  form,             \* productName, productCategory, targetAudience,
                    \* userDescription, targetLanguage
  description,      \* the generated text shown ('' : none)
  loading,          \* a submit is running
  saving,           \* a save is running
  error,            \* the draft's error message ('' : none)
  saved,            \* the save-state
  images,           \* the attachment list: a sequence of File identities
  imagePreviews,    \* the preview list: the preview of file f is written f
  readers,          \* files whose preview FileReader has not fired yet
  submitCalls,      \* handleSubmit invocations waiting for the service
  saveCalls,        \* handleSave invocations waiting for the service
  nextFile,         \* File objects created so far
  \* ---- history of the Draft Session, read only by the properties ----
  descGen,          \* the result `description` shows (0 : none)
  descAttrs,        \* the attributes of the generate call that returned it
  saveOk,           \* per result: successful saveGeneration calls for its text
  roundTripDone     \* a submit succeeded and nothing was attached since

dvars == <<form, description, loading, saving, error, saved, images, imagePreviews,
           readers, submitCalls, saveCalls, nextFile, descGen, descAttrs, saveOk,
           roundTripDone>>

VARIABLES
  \* ---- History screen (History component) ----
  generations,      \* the in-memory history list: a sequence of records
  histLoading,      \* History's `loading`
  histError,        \* History's `error` ('' : none)
  editingId,        \* id of the record being edited (NoId : none)
  editForm,         \* the edit overlay: a function on the keys it holds
  regenerating,     \* a regenerate is running
  translatingId,    \* id of the record whose translation panel is open
  languageInputs,   \* record id -> language slots, for the ids it holds
  translations,     \* record id -> (language -> text), for the ids it holds
  translating,      \* a translate is running
  \* ---- the services, as seen from the History screen ----
  stored,           \* the list getHistory returns
  loadCalls,        \* loadHistory invocations of the mount and of Refresh
                    \* waiting for the service
  regenCalls,       \* handleRegenerate invocations waiting for the service
  updateCalls,      \* handleSaveUpdate invocations waiting for save
  reloadCalls,      \* handleSaveUpdate invocations waiting in loadHistory
  translateCalls,   \* handleTranslate invocations waiting for the service
  deleteCalls,      \* handleDelete invocations waiting for the service
  \* ---- history of the History screen, read only by the properties ----
  pendingInSession  \* the overlay holds a pending text, and the regenerate
                    \* that produced it was started in the edit session
                    \* that is open now

\* The list and its loading.
lvars == <<generations, histLoading, histError, loadCalls>>

\* The edit overlay.
evars == <<editingId, editForm, regenerating, regenCalls, updateCalls, reloadCalls,
           pendingInSession>>

\* The translation panel.
tvars == <<translatingId, languageInputs, translations, translating,
           translateCalls>>

\* The Persistence Service's list and the delete calls on it.
svars == <<stored, deleteCalls>>

hvars == <<lvars, evars, tvars, svars>>

vars == <<isAuthenticated, dvars, hvars>>

(***************************************************************************)
(* Helpers.                                                                *)
(***************************************************************************)
Range(s) == {s[i] : i \in DOMAIN s}

\* file.type.startsWith('image/')
IsImageType(t) == t[1] = "image"

\* The image-type files of a batch.
NumImages(files) == Len(SelectSeq(files, IsImageType))

\* prev.filter((_, i) => i !== index), with index counted from 1.
RemoveAt(s, index) ==
  [j \in 1..(IF index <= Len(s) THEN Len(s) - 1 ELSE Len(s)) |->
     IF j < index THEN s[j] ELSE s[j + 1]]

\* err.response?.data?.error || fallback, with the reported message ignored.
ErrorText_FallbackOnly(reported, fallback) == fallback

\* err.response?.data?.error || fallback
ErrorText(reported, fallback) == IF reported # "" THEN reported ELSE fallback

\* All batches of at most MaxBatch files.
Batches == UNION {[1..k -> MimeTypes] : k \in 1..MaxBatch}

\* The name of the result a new submit will produce: one that neither a call
\* in flight carries nor, once handleSubmit has cleared it, the screen shows.
NewGen ==
  CHOOSE g \in 1..MaxGen :
    /\ g \notin {c.gen : c \in saveCalls \cup submitCalls}
    /\ \A h \in 1..MaxGen :
         h \notin {c.gen : c \in saveCalls \cup submitCalls} => g <= h

\* The File objects of the n image files of a batch: n new identities.
NewFiles(n) == [k \in 1..n |-> nextFile + k]

\* The object without keys: {} .
EmptyObject == <<>>

\* { ...o, [k]: v }
With(o, k, v) == [x \in DOMAIN o \cup {k} |-> IF x = k THEN v ELSE o[x]]

\* o[k] || d : d when o holds no k or holds '' for it.
OrElse(o, k, d) == IF k \in DOMAIN o /\ o[k] # "" THEN o[k] ELSE d

\* lang.trim(): the blanks at both ends are dropped.
RECURSIVE TrimStart(_)
TrimStart(s) == IF s # <<>> /\ Head(s) = " " THEN TrimStart(Tail(s)) ELSE s

RECURSIVE TrimEnd(_)
TrimEnd(s) ==
  IF s # <<>> /\ s[Len(s)] = " " THEN TrimEnd(SubSeq(s, 1, Len(s) - 1)) ELSE s

\* lang.trim() that trims nothing.
Trim_Nothing(s) == s

Trim(s) == TrimEnd(TrimStart(s))

(***************************************************************************)
(* History screen: the useState initialisers.                              *)
(***************************************************************************)
HistoryState0 ==
  /\ generations = <<>>
  /\ histLoading = TRUE
  /\ histError = ""
  /\ editingId = NoId
  /\ editForm = EmptyObject
  /\ regenerating = FALSE
  /\ translatingId = NoId
  /\ languageInputs = EmptyObject
  /\ translations = EmptyObject
  /\ translating = FALSE
  /\ regenCalls = {}
  /\ updateCalls = {}
  /\ reloadCalls = {}
  /\ translateCalls = {}
  /\ deleteCalls = {}
  /\ pendingInSession = FALSE

\* The History screen not on display: no call of it is in flight.
HistoryIdle ==
  /\ HistoryState0
  /\ loadCalls = 0
  /\ stored = <<>>

(***************************************************************************)
(* Draft Session: initial state (the useState initialisers).               *)
(***************************************************************************)
DraftInit ==
  /\ form = [product_name |-> "", product_category |-> "", target_audience |-> "",
             user_description |-> "", target_language |-> "English"]
  /\ description = ""
  /\ loading = FALSE
  /\ saving = FALSE
  /\ error = ""
  /\ saved = FALSE
  /\ images = <<>>
  /\ imagePreviews = <<>>
  /\ readers = {}
  /\ submitCalls = {}
  /\ saveCalls = {}
  /\ nextFile = 0
  /\ descGen = 0
  /\ descAttrs = EmptyObject
  /\ saveOk = [g \in 1..MaxGen |-> 0]
  /\ roundTripDone = FALSE

(***************************************************************************)
(* Draft Session: the form.                                                *)
(***************************************************************************)
\* onChange of a form control: setProductName, ..., setTargetLanguage.
SetField ==
  \E f \in DOMAIN FieldValues : \E v \in FieldValues[f] :
    /\ form' = [form EXCEPT ![f] = v]
    /\ UNCHANGED <<hvars, isAuthenticated, description, loading, saving, error, saved,
                   images, imagePreviews, readers, submitCalls, saveCalls,
                   nextFile, descGen, descAttrs, saveOk, roundTripDone>>

(***************************************************************************)
(* Draft Session: attachments.                                             *)
(***************************************************************************)
\* handleImageChange with the limit test off by one.
HandleImageChange_OffByOne(files) ==
  /\ IF Len(files) + Len(images) > MaxImages + 1
     THEN /\ error' = "Maximum 5 images allowed"
          /\ UNCHANGED <<images, readers, nextFile, roundTripDone>>
     ELSE LET n == NumImages(files) IN
          /\ images' = images \o NewFiles(n)
          /\ readers' = readers \cup Range(NewFiles(n))
          /\ nextFile' = nextFile + n
          /\ roundTripDone' = (roundTripDone /\ n = 0)
          /\ UNCHANGED error
  /\ UNCHANGED <<hvars, isAuthenticated, form, description, loading, saving, saved,
                 imagePreviews, submitCalls, saveCalls, descGen, descAttrs, saveOk>>

\* handleImageChange: the whole batch is counted against the limit, then its
\* image-type files are appended and a preview reader is started for each.
HandleImageChange(files) ==
  /\ IF Len(files) + Len(images) > MaxImages
     THEN /\ error' = "Maximum 5 images allowed"
          /\ UNCHANGED <<images, readers, nextFile, roundTripDone>>
     ELSE LET n == NumImages(files) IN
          /\ images' = images \o NewFiles(n)
          /\ readers' = readers \cup Range(NewFiles(n))
          /\ nextFile' = nextFile + n
          /\ roundTripDone' = (roundTripDone /\ n = 0)
          /\ UNCHANGED error
  /\ UNCHANGED <<hvars, isAuthenticated, form, description, loading, saving, saved,
                 imagePreviews, submitCalls, saveCalls, descGen, descAttrs, saveOk>>

\* The file input's change event.
AddImages ==
  \E files \in Batches :
    /\ nextFile + NumImages(files) <= MaxFiles
    /\ Cardinality(readers) + NumImages(files) <= MaxPending
    /\ HandleImageChange(files)

\* reader.onload of a preview reader: the preview is appended.
PreviewLoaded ==
  \E f \in readers :
    /\ imagePreviews' = Append(imagePreviews, f)
    /\ readers' = readers \ {f}
    /\ UNCHANGED <<hvars, isAuthenticated, form, description, loading, saving, error, saved,
                   images, submitCalls, saveCalls, nextFile, descGen, descAttrs,
                   saveOk, roundTripDone>>

\* A preview reader that fails: no handler is installed, nothing happens.
PreviewFailed ==
  \E f \in readers :
    /\ readers' = readers \ {f}
    /\ UNCHANGED <<hvars, isAuthenticated, form, description, loading, saving, error, saved,
                   images, imagePreviews, submitCalls, saveCalls, nextFile,
                   descGen, descAttrs, saveOk, roundTripDone>>

\* removeImage(index): both lists drop their entry at the index.
removeImage(index) ==
  /\ images' = RemoveAt(images, index)
  /\ imagePreviews' = RemoveAt(imagePreviews, index)
  /\ UNCHANGED <<hvars, isAuthenticated, form, description, loading, saving, error, saved,
                 readers, submitCalls, saveCalls, nextFile, descGen, descAttrs,
                 saveOk, roundTripDone>>

\* The remove button of a preview: one per preview, shown while images exist.
RemoveImage ==
  /\ Len(images) > 0
  /\ \E index \in 1..Len(imagePreviews) : removeImage(index)

(***************************************************************************)
(* Draft Session: submit.                                                  *)
(***************************************************************************)
\* handleSubmit up to its first await.
handleSubmit ==
  /\ error' = ""
  /\ description' = ""
  /\ saved' = FALSE
  /\ loading' = TRUE
  /\ descGen' = 0
  /\ descAttrs' = EmptyObject
  /\ submitCalls' = submitCalls \cup {[gen |-> NewGen, attributes |-> form]}
  /\ saveOk' = [saveOk EXCEPT ![NewGen] = 0]
  /\ UNCHANGED <<hvars, isAuthenticated, form, saving, images, imagePreviews, readers,
                 saveCalls, nextFile, roundTripDone>>

\* The inputs marked required hold a value: the browser submits the form.
FormValid ==
  /\ form.product_name # ""
  /\ form.product_category # ""
  /\ form.target_audience # ""
  /\ form.target_language # ""

\* The generate button without its disabled attribute.
Submit_NoLoadingTest ==
  /\ FormValid
  /\ handleSubmit

\* The generate button: disabled={loading}.
Submit ==
  /\ ~loading
  /\ FormValid
  /\ handleSubmit

\* handleSubmit after generationApi.generate resolved, with setSaved(false)
\* left out.
SubmitDone_KeepsSaved(c, text) ==
  /\ c \in submitCalls
  /\ description' = text
  /\ images' = <<>>
  /\ imagePreviews' = <<>>
  /\ loading' = FALSE
  /\ descGen' = c.gen
  /\ descAttrs' = c.attributes
  /\ roundTripDone' = TRUE
  /\ submitCalls' = submitCalls \ {c}
  /\ UNCHANGED <<hvars, isAuthenticated, form, saving, error, saved, readers,
                 saveCalls, nextFile, saveOk>>

\* handleSubmit after generationApi.generate resolved with the text.
SubmitDone(c, text) ==
  /\ c \in submitCalls
  /\ description' = text
  /\ saved' = FALSE
  /\ images' = <<>>
  /\ imagePreviews' = <<>>
  /\ loading' = FALSE
  /\ descGen' = c.gen
  /\ descAttrs' = c.attributes
  /\ roundTripDone' = TRUE
  /\ submitCalls' = submitCalls \ {c}
  /\ UNCHANGED <<hvars, isAuthenticated, form, saving, error, readers, saveCalls,
                 nextFile, saveOk>>

SubmitSuccess == \E c \in submitCalls, text \in Texts : SubmitDone(c, text)

\* handleSubmit after the encoding (which reports nothing) or
\* generationApi.generate rejected.
SubmitFailed(c, reported) ==
  /\ c \in submitCalls
  /\ error' = ErrorText(reported, "Failed to generate description. Please try again.")
  /\ loading' = FALSE
  /\ submitCalls' = submitCalls \ {c}
  /\ UNCHANGED <<hvars, isAuthenticated, form, description, saving, saved, images,
                 imagePreviews, readers, saveCalls, nextFile, descGen, descAttrs,
                 saveOk, roundTripDone>>

SubmitFail == \E c \in submitCalls, reported \in Reported : SubmitFailed(c, reported)

(***************************************************************************)
(* Draft Session: save.                                                    *)
(***************************************************************************)
\* handleSave up to its await.
handleSave ==
  IF ~isAuthenticated
  THEN UNCHANGED vars
  ELSE IF description = ""
  THEN /\ error' = "No description to save. Please generate a description first."
       /\ UNCHANGED <<hvars, isAuthenticated, form, description, loading, saving, saved,
                      images, imagePreviews, readers, submitCalls, saveCalls,
                      nextFile, descGen, descAttrs, saveOk, roundTripDone>>
  ELSE /\ saving' = TRUE
       /\ error' = ""
       /\ saveCalls' = saveCalls \cup
            {[attributes |-> form, final_description |-> description,
              image_urls |-> <<>>, gen |-> descGen, savedAtCall |-> saved]}
       /\ UNCHANGED <<hvars, isAuthenticated, form, description, loading, saved, images,
                      imagePreviews, readers, submitCalls, nextFile,
                      descGen, descAttrs, saveOk, roundTripDone>>

\* The save button with the saved test left out of its disabled attribute.
SaveButtonEnabled_NoSavedTest ==
  /\ isAuthenticated /\ description # ""
  /\ ~(saving \/ description = "")

\* The save button: rendered when isAuthenticated && description,
\* disabled={saving || saved || !description}.
SaveButtonEnabled ==
  /\ isAuthenticated /\ description # ""
  /\ ~(saving \/ saved \/ description = "")

Save ==
  /\ SaveButtonEnabled
  /\ handleSave

\* handleSave after generationApi.save resolved.
SaveSuccess ==
  \E c \in saveCalls :
    /\ saved' = TRUE
    /\ saving' = FALSE
    /\ saveCalls' = saveCalls \ {c}
    /\ saveOk' = [saveOk EXCEPT ![c.gen] = IF @ < 2 THEN @ + 1 ELSE @]
    /\ UNCHANGED <<hvars, isAuthenticated, form, description, loading, error, images,
                   imagePreviews, readers, submitCalls, nextFile,
                   descGen, descAttrs, roundTripDone>>

\* handleSave after generationApi.save rejected, with setSaving(false) left
\* out.
SaveFail_KeepsSaving ==
  \E c \in saveCalls, reported \in Reported :
    /\ error' = ErrorText(reported, "Failed to save description. Please try again.")
    /\ saveCalls' = saveCalls \ {c}
    /\ UNCHANGED <<hvars, isAuthenticated, form, description, loading, saving,
                   saved, images, imagePreviews, readers, submitCalls, nextFile,
                   descGen, descAttrs, saveOk, roundTripDone>>

\* handleSave after generationApi.save rejected.
SaveFail ==
  \E c \in saveCalls, reported \in Reported :
    /\ error' = ErrorText(reported, "Failed to save description. Please try again.")
    /\ saving' = FALSE
    /\ saveCalls' = saveCalls \ {c}
    /\ UNCHANGED <<hvars, isAuthenticated, form, description, loading, saved, images,
                   imagePreviews, readers, submitCalls, nextFile,
                   descGen, descAttrs, saveOk, roundTripDone>>

(***************************************************************************)
(* Draft Session: specifications.                                          *)
(***************************************************************************)
\* The attachment events with submit and its completions.
AttachNext ==
  \/ AddImages
  \/ PreviewLoaded
  \/ PreviewFailed
  \/ RemoveImage
  \/ Submit
  \/ SubmitSuccess
  \/ SubmitFail

\* The attachment events read neither the authentication state nor the form
\* (a submit only needs it filled in): a guest's session, the form filled in.
AttachInit ==
  /\ HistoryIdle
  /\ isAuthenticated = FALSE
  /\ form = [product_name |-> "Mug", product_category |-> "Home & Garden",
             target_audience |-> "adults", user_description |-> "",
             target_language |-> "English"]
  /\ description = ""
  /\ loading = FALSE
  /\ saving = FALSE
  /\ error = ""
  /\ saved = FALSE
  /\ images = <<>>
  /\ imagePreviews = <<>>
  /\ readers = {}
  /\ submitCalls = {}
  /\ saveCalls = {}
  /\ nextFile = 0
  /\ descGen = 0
  /\ descAttrs = EmptyObject
  /\ saveOk = [g \in 1..MaxGen |-> 0]
  /\ roundTripDone = FALSE

SpecAttach == AttachInit /\ [][AttachNext]_vars

ImagesNext == AddImages \/ PreviewLoaded \/ PreviewFailed \/ RemoveImage

SpecImages == AttachInit /\ [][ImagesNext]_vars


\* Submit, save and their completions.
SaveNext ==
  \/ SetField
  \/ Submit
  \/ SubmitSuccess
  \/ SubmitFail
  \/ Save
  \/ SaveSuccess
  \/ SaveFail

SaveInit == DraftInit /\ HistoryIdle /\ isAuthenticated \in BOOLEAN

SpecSave == SaveInit /\ [][SaveNext]_vars

(***************************************************************************)
(* History screen: the list.                                               *)
(***************************************************************************)
\* The render function reaches the list and its controls: the user is
\* authenticated, `loading` is false and `error` is empty.
Shown == isAuthenticated /\ ~histLoading /\ histError = ""

\* loadHistory up to its await.
loadHistory ==
  /\ histLoading' = TRUE
  /\ loadCalls' = loadCalls + 1
  /\ UNCHANGED <<isAuthenticated, dvars, generations, histError, evars, tvars,
                 svars>>

\* The Refresh button.
Refresh ==
  /\ Shown
  /\ loadCalls < MaxCalls
  /\ loadHistory

\* loadHistory after generationApi.getHistory resolved.
LoadDone ==
  /\ loadCalls > 0
  /\ generations' = stored
  /\ histLoading' = FALSE
  /\ loadCalls' = loadCalls - 1
  /\ UNCHANGED <<isAuthenticated, dvars, histError, evars, tvars, svars>>

\* loadHistory after generationApi.getHistory rejected.
LoadFailed ==
  \E reported \in Reported :
    /\ loadCalls > 0
    /\ histError' = ErrorText(reported, "Failed to load history")
    /\ histLoading' = FALSE
    /\ loadCalls' = loadCalls - 1
    /\ UNCHANGED <<isAuthenticated, dvars, generations, evars, tvars, svars>>

(***************************************************************************)
(* History screen: the edit overlay.                                       *)
(***************************************************************************)
\* The record's item shows the edit form.
Editing(gen) == editingId = gen.id

\* The overlay holds a pending regenerated text (editForm.final_description
\* is truthy).
HasPending == OrElse(editForm, "final_description", "") # ""

\* The value an edit control shows: editForm.x || gen.x .
Displayed(gen, k) == OrElse(editForm, k, gen[k])

\* The attribute handleRegenerate and handleSaveUpdate send, taken from the
\* record alone.
Effective_Stored(gen, k) == gen[k]

\* The attribute handleRegenerate and handleSaveUpdate send:
\* editForm.x || gen.x .
Effective(gen, k) == OrElse(editForm, k, gen[k])

\* The argument of generationApi.generate in handleRegenerate.
GenerateRequest(gen) ==
  [product_name     |-> gen.product_name,
   product_category |-> Effective(gen, "product_category"),
   target_audience  |-> Effective(gen, "target_audience"),
   user_description |-> Effective(gen, "user_description"),
   target_language  |-> Effective(gen, "target_language")]

\* The argument of generationApi.save in handleSaveUpdate.
SaveRequest(gen) ==
  [product_name      |-> gen.product_name,
   product_category  |-> Effective(gen, "product_category"),
   target_audience   |-> Effective(gen, "target_audience"),
   user_description  |-> Effective(gen, "user_description"),
   target_language   |-> Effective(gen, "target_language"),
   final_description |-> editForm["final_description"],
   image_urls        |-> gen.image_urls]

\* The regenerate calls in flight, when the edit session they were started
\* in is closed.
SessionClosed == {[c EXCEPT !.inSession = FALSE] : c \in regenCalls}

\* Names free for a new handleSaveUpdate invocation.
FreeCalls == (1..MaxClicks) \ {c.call : c \in updateCalls \cup reloadCalls}

\* handleSaveUpdate invocations that have not returned.
OpenCalls == Cardinality(updateCalls) + Cardinality(reloadCalls)

NewCall == CHOOSE k \in FreeCalls : \A j \in FreeCalls : k <= j

\* handleEdit that leaves an editing id in place.
handleEdit_KeepsEditing(gen) ==
  /\ editingId' = IF editingId # NoId THEN editingId ELSE gen.id
  /\ editForm' = [k \in EditFields |-> gen[k]]
  /\ regenCalls' = SessionClosed
  /\ pendingInSession' = FALSE
  /\ UNCHANGED <<isAuthenticated, dvars, lvars, regenerating, updateCalls,
                 reloadCalls, tvars, svars>>

\* handleEdit: the overlay is opened on the record, pre-filled from it.
handleEdit(gen) ==
  /\ editingId' = gen.id
  /\ editForm' = [k \in EditFields |-> gen[k]]
  /\ regenCalls' = SessionClosed
  /\ pendingInSession' = FALSE
  /\ UNCHANGED <<isAuthenticated, dvars, lvars, regenerating, updateCalls,
                 reloadCalls, tvars, svars>>

\* The Edit button of a record that is not being edited.
Edit ==
  /\ Shown
  /\ \E i \in DOMAIN generations :
       /\ ~Editing(generations[i])
       /\ handleEdit(generations[i])

handleCancelEdit ==
  /\ editingId' = NoId
  /\ editForm' = EmptyObject
  /\ regenCalls' = SessionClosed
  /\ pendingInSession' = FALSE
  /\ UNCHANGED <<isAuthenticated, dvars, lvars, regenerating, updateCalls,
                 reloadCalls, tvars, svars>>

\* The Cancel button of the record being edited.
CancelEdit ==
  /\ Shown
  /\ \E i \in DOMAIN generations : Editing(generations[i])
  /\ handleCancelEdit

\* onChange of a control of the edit form:
\* setEditForm((prev) => ({ ...prev, k: v })).
SetEditField ==
  /\ Shown
  /\ \E i \in DOMAIN generations : Editing(generations[i])
  /\ \E k \in EditFields : \E v \in EditValues[k] :
       editForm' = With(editForm, k, v)
  /\ UNCHANGED <<isAuthenticated, dvars, lvars, editingId, regenerating,
                 regenCalls, updateCalls, reloadCalls, pendingInSession,
                 tvars, svars>>

\* handleRegenerate up to its await.
handleRegenerate(gen) ==
  /\ regenerating' = TRUE
  /\ histError' = ""
  /\ regenCalls' = regenCalls \cup
       {[request |-> GenerateRequest(gen), inSession |-> TRUE]}
  /\ UNCHANGED <<isAuthenticated, dvars, generations, histLoading, loadCalls,
                 editingId, editForm, updateCalls, reloadCalls, pendingInSession,
                 tvars, svars>>

\* The regenerate button of the edit form: disabled={regenerating}.
Regenerate ==
  /\ Shown
  /\ ~regenerating
  /\ \E i \in DOMAIN generations :
       /\ Editing(generations[i])
       /\ handleRegenerate(generations[i])

\* handleRegenerate after generationApi.generate resolved:
\* setEditForm((prev) => ({ ...prev, final_description })).
RegenerateResolved(c, text) ==
  /\ c \in regenCalls
  /\ editForm' = With(editForm, "final_description", text)
  /\ pendingInSession' = c.inSession
  /\ regenerating' = FALSE
  /\ regenCalls' = regenCalls \ {c}
  /\ UNCHANGED <<isAuthenticated, dvars, lvars, editingId, updateCalls,
                 reloadCalls, tvars, svars>>

RegenerateDone ==
  \E c \in regenCalls, text \in Texts : RegenerateResolved(c, text)

\* handleRegenerate after generationApi.generate rejected.
RegenerateRejected_KeepsFlag(c, reported) ==
  /\ c \in regenCalls
  /\ histError' = ErrorText(reported, "Failed to regenerate description")
  /\ regenCalls' = regenCalls \ {c}
  /\ UNCHANGED <<isAuthenticated, dvars, generations, histLoading, loadCalls,
                 editingId, editForm, regenerating, updateCalls, reloadCalls,
                 pendingInSession, tvars, svars>>

\* handleRegenerate after generationApi.generate rejected.
RegenerateRejected(c, reported) ==
  /\ c \in regenCalls
  /\ histError' = ErrorText(reported, "Failed to regenerate description")
  /\ regenerating' = FALSE
  /\ regenCalls' = regenCalls \ {c}
  /\ UNCHANGED <<isAuthenticated, dvars, generations, histLoading, loadCalls,
                 editingId, editForm, updateCalls, reloadCalls,
                 pendingInSession, tvars, svars>>

RegenerateFailed ==
  \E c \in regenCalls, reported \in Reported : RegenerateRejected(c, reported)

\* handleSaveUpdate up to its first await.
handleSaveUpdate(gen) ==
  IF ~HasPending
  THEN /\ histError' = "Please regenerate the description first"
       /\ UNCHANGED <<isAuthenticated, dvars, generations, histLoading, loadCalls,
                      evars, tvars, svars>>
  ELSE /\ updateCalls' = updateCalls \cup
            {[call |-> NewCall, id |-> gen.id, request |-> SaveRequest(gen),
              inSession |-> pendingInSession]}
       /\ UNCHANGED <<isAuthenticated, dvars, lvars, editingId, editForm,
                      regenerating, regenCalls, reloadCalls, pendingInSession,
                      tvars, svars>>

\* The Save Update button of the edit form: rendered when
\* editForm.final_description.
SaveUpdateShown(gen) == Shown /\ Editing(gen) /\ HasPending

SaveUpdate ==
  /\ OpenCalls < MaxCalls
  /\ \E i \in DOMAIN generations :
       /\ SaveUpdateShown(generations[i])
       /\ handleSaveUpdate(generations[i])

\* handleSaveUpdate after generationApi.save resolved: loadHistory is called
\* and awaited.
UpdateSaved(c) ==
  /\ c \in updateCalls
  /\ updateCalls' = updateCalls \ {c}
  /\ reloadCalls' = reloadCalls \cup {[call |-> c.call, id |-> c.id]}
  /\ histLoading' = TRUE
  /\ UNCHANGED <<isAuthenticated, dvars, generations, histError, loadCalls,
                 editingId, editForm, regenerating, regenCalls,
                 pendingInSession, tvars, svars>>

UpdateSave == \E c \in updateCalls : UpdateSaved(c)

\* handleSaveUpdate after generationApi.save rejected.
UpdateFailed(c, reported) ==
  /\ c \in updateCalls
  /\ histError' = ErrorText(reported, "Failed to update generation")
  /\ updateCalls' = updateCalls \ {c}
  /\ UNCHANGED <<isAuthenticated, dvars, generations, histLoading, loadCalls,
                 editingId, editForm, regenerating, regenCalls, reloadCalls,
                 pendingInSession, tvars, svars>>

UpdateFail == \E c \in updateCalls, reported \in Reported : UpdateFailed(c, reported)

\* handleSaveUpdate after its loadHistory returned with the list loaded: the
\* overlay is closed.
ReloadDone(k) ==
  /\ k \in reloadCalls
  /\ generations' = stored
  /\ histLoading' = FALSE
  /\ editingId' = NoId
  /\ editForm' = EmptyObject
  /\ regenCalls' = SessionClosed
  /\ pendingInSession' = FALSE
  /\ reloadCalls' = reloadCalls \ {k}
  /\ UNCHANGED <<isAuthenticated, dvars, histError, loadCalls, regenerating,
                 updateCalls, tvars, svars>>

Reload == \E k \in reloadCalls : ReloadDone(k)

\* handleSaveUpdate after its loadHistory returned having caught a failure of
\* getHistory: the overlay is closed all the same.
ReloadFailed ==
  \E k \in reloadCalls, reported \in Reported :
    /\ histError' = ErrorText(reported, "Failed to load history")
    /\ histLoading' = FALSE
    /\ editingId' = NoId
    /\ editForm' = EmptyObject
    /\ regenCalls' = SessionClosed
    /\ pendingInSession' = FALSE
    /\ reloadCalls' = reloadCalls \ {k}
    /\ UNCHANGED <<isAuthenticated, dvars, generations, loadCalls, regenerating,
                   updateCalls, tvars, svars>>

(***************************************************************************)
(* History screen: specification of the list and the edit overlay.         *)
(***************************************************************************)
\* The History screen mounted for an authenticated user: the effect of the
\* mount has called loadHistory.
HistoryMounted ==
  /\ DraftInit
  /\ isAuthenticated = TRUE
  /\ HistoryState0
  /\ loadCalls = 1

EditInit ==
  /\ HistoryMounted
  /\ stored = <<RecordA, RecordB>>

EditNext ==
  \/ Refresh
  \/ LoadDone
  \/ LoadFailed
  \/ Edit
  \/ CancelEdit
  \/ SetEditField
  \/ Regenerate
  \/ RegenerateDone
  \/ RegenerateFailed
  \/ SaveUpdate
  \/ UpdateSave
  \/ UpdateFail
  \/ Reload
  \/ ReloadFailed

SpecEdit == EditInit /\ [][EditNext]_vars

(***************************************************************************)
(* History screen: Save Update clicked while a save-update is open.        *)
(***************************************************************************)
\* The Save Update button carries no `disabled`: it takes a click whenever
\* it is rendered.
ClickSaveUpdate ==
  /\ OpenCalls < MaxClicks
  /\ \E i \in DOMAIN generations :
       /\ SaveUpdateShown(generations[i])
       /\ handleSaveUpdate(generations[i])

\* A history of one record.
ClicksInit ==
  /\ HistoryMounted
  /\ stored = <<RecordA>>

ClicksNext ==
  \/ LoadDone
  \/ LoadFailed
  \/ Edit
  \/ CancelEdit
  \/ Regenerate
  \/ RegenerateDone
  \/ RegenerateFailed
  \/ ClickSaveUpdate
  \/ UpdateSave
  \/ UpdateFail
  \/ Reload
  \/ ReloadFailed

SpecClicks == ClicksInit /\ [][ClicksNext]_vars

(***************************************************************************)
(* History screen: deleting a record.                                      *)
(***************************************************************************)
\* prev.filter((gen) => gen.id !== id)
Without(list, id) == SelectSeq(list, LAMBDA gen : gen.id # id)

\* A name for the next delete call.
NewDelete == CHOOSE k \in (1..MaxCalls) \ {c.call : c \in deleteCalls} : TRUE

\* handleDelete that asks nothing: the call is made whatever the user
\* answers.
handleDelete_NoConfirm(id, confirmed) ==
  /\ deleteCalls' = deleteCalls \cup {[call |-> NewDelete, id |-> id]}
  /\ UNCHANGED <<isAuthenticated, dvars, lvars, evars, tvars, stored>>

\* handleDelete up to its await; `confirmed` is the user's answer to the
\* confirm dialog.
handleDelete(id, confirmed) ==
  IF ~confirmed
    THEN UNCHANGED vars
    ELSE /\ deleteCalls' = deleteCalls \cup {[call |-> NewDelete, id |-> id]}
         /\ UNCHANGED <<isAuthenticated, dvars, lvars, evars, tvars, stored>>

\* The Delete button of a record, shown while the record is not the one
\* being edited.
Delete ==
  /\ Shown
  /\ Cardinality(deleteCalls) < MaxCalls
  /\ \E i \in 1..Len(generations), confirmed \in BOOLEAN :
       /\ ~Editing(generations[i])
       /\ handleDelete(generations[i].id, confirmed)

\* handleDelete after generationApi.delete resolved: the service has dropped
\* the record.
DeleteDone(c) ==
  /\ c \in deleteCalls
  /\ stored' = Without(stored, c.id)
  /\ generations' = Without(generations, c.id)
  /\ deleteCalls' = deleteCalls \ {c}
  /\ UNCHANGED <<isAuthenticated, dvars, histLoading, histError, loadCalls,
                 evars, tvars>>

DeleteSuccess == \E c \in deleteCalls : DeleteDone(c)

\* handleDelete after generationApi.delete rejected.
DeleteFailed(c, reported) ==
  /\ c \in deleteCalls
  /\ histError' = ErrorText(reported, "Failed to delete generation")
  /\ deleteCalls' = deleteCalls \ {c}
  /\ UNCHANGED <<isAuthenticated, dvars, generations, histLoading, loadCalls,
                 evars, tvars, stored>>

DeleteFail == \E c \in deleteCalls, reported \in Reported : DeleteFailed(c, reported)

\* The list with its Refresh, Edit, Cancel and Delete buttons.
DeleteNext ==
  \/ Refresh
  \/ LoadDone
  \/ LoadFailed
  \/ Edit
  \/ CancelEdit
  \/ Delete
  \/ DeleteSuccess
  \/ DeleteFail

SpecDelete == EditInit /\ [][DeleteNext]_vars

(***************************************************************************)
(* History screen: the translation panel.                                  *)
(***************************************************************************)
\* languageInputs[genId] || d
SlotsOr(genId, d) ==
  IF genId \in DOMAIN languageInputs THEN languageInputs[genId] ELSE d

\* The language names handleTranslate sends: the slots trimmed, the empty
\* ones dropped.
Langs(genId) ==
  LET trimmed == [i \in DOMAIN SlotsOr(genId, <<>>) |-> Trim(SlotsOr(genId, <<>>)[i])]
  IN  SelectSeq(trimmed, LAMBDA lang : Len(lang) > 0)

\* (languageInputs[gen.id] || []).every((lang) => !lang.trim())
AllBlank(genId) ==
  \A i \in DOMAIN SlotsOr(genId, <<>>) : Trim(SlotsOr(genId, <<>>)[i]) = <<>>

\* The record's item shows the translation panel.
PanelShown(gen) == Shown /\ ~Editing(gen) /\ translatingId = gen.id

\* toggleTranslationPanel that seeds the slot list at every opening.
toggleTranslationPanel_Reseeds(genId) ==
  /\ IF translatingId = genId
     THEN /\ translatingId' = NoId
          /\ UNCHANGED languageInputs
     ELSE /\ translatingId' = genId
          /\ languageInputs' = With(languageInputs, genId, << <<>> >>)
  /\ UNCHANGED <<isAuthenticated, dvars, lvars, evars, translations, translating,
                 translateCalls, svars>>

\* toggleTranslationPanel: the panel of the record is closed if it is the
\* open one; otherwise it becomes the open one, and a record without slot
\* list gets one empty slot.
toggleTranslationPanel(genId) ==
  /\ IF translatingId = genId
     THEN /\ translatingId' = NoId
          /\ UNCHANGED languageInputs
     ELSE /\ translatingId' = genId
          /\ languageInputs' =
               IF genId \in DOMAIN languageInputs
               THEN languageInputs
               ELSE With(languageInputs, genId, << <<>> >>)
  /\ UNCHANGED <<isAuthenticated, dvars, lvars, evars, translations, translating,
                 translateCalls, svars>>

\* The translate-panel button of a record that is not being edited.
TogglePanel ==
  /\ Shown
  /\ \E i \in DOMAIN generations :
       /\ ~Editing(generations[i])
       /\ toggleTranslationPanel(generations[i].id)

\* handleLanguageInputChange(genId, index, value), index counted from 1.
handleLanguageInputChange(genId, index, value) ==
  /\ languageInputs' =
       With(languageInputs, genId,
            [SlotsOr(genId, << <<>>, <<>>, <<>> >>) EXCEPT ![index] = value])
  /\ UNCHANGED <<isAuthenticated, dvars, lvars, evars, translatingId,
                 translations, translating, translateCalls, svars>>

\* Typing in a slot of the open panel.
ChangeLanguageInput ==
  \E i \in DOMAIN generations :
    /\ PanelShown(generations[i])
    /\ \E index \in DOMAIN SlotsOr(generations[i].id, << <<>> >>) :
         \E value \in SlotTexts :
           handleLanguageInputChange(generations[i].id, index, value)

\* addLanguageInput without the test of the length.
addLanguageInput_NoLimit(genId) ==
  /\ languageInputs' =
       With(languageInputs, genId, Append(SlotsOr(genId, <<>>), <<>>))
  /\ UNCHANGED <<isAuthenticated, dvars, lvars, evars, translatingId,
                 translations, translating, translateCalls, svars>>

\* addLanguageInput: one empty slot more, unless there are 3.
addLanguageInput(genId) ==
  /\ languageInputs' =
       IF Len(SlotsOr(genId, <<>>)) < MaxSlots
       THEN With(languageInputs, genId, Append(SlotsOr(genId, <<>>), <<>>))
       ELSE languageInputs
  /\ UNCHANGED <<isAuthenticated, dvars, lvars, evars, translatingId,
                 translations, translating, translateCalls, svars>>

\* The add button of the open panel: shown with fewer than 3 slots.
AddLanguage ==
  \E i \in DOMAIN generations :
    /\ PanelShown(generations[i])
    /\ Len(SlotsOr(generations[i].id, <<>>)) < MaxSlots
    /\ addLanguageInput(generations[i].id)

\* removeLanguageInput(genId, index), index counted from 1.
removeLanguageInput(genId, index) ==
  /\ languageInputs' =
       With(languageInputs, genId, RemoveAt(SlotsOr(genId, <<>>), index))
  /\ UNCHANGED <<isAuthenticated, dvars, lvars, evars, translatingId,
                 translations, translating, translateCalls, svars>>

\* The remove button of a slot: shown with more than one slot.
RemoveLanguage ==
  \E i \in DOMAIN generations :
    /\ PanelShown(generations[i])
    /\ Len(SlotsOr(generations[i].id, <<>>)) > 1
    /\ \E index \in DOMAIN SlotsOr(generations[i].id, <<>>) :
         removeLanguageInput(generations[i].id, index)

\* handleTranslate up to its await.
handleTranslate(gen) ==
  IF Len(Langs(gen.id)) = 0
  THEN /\ histError' = "Please enter at least one language"
       /\ UNCHANGED <<isAuthenticated, dvars, generations, histLoading, loadCalls,
                      evars, tvars, svars>>
  ELSE IF Len(Langs(gen.id)) > MaxSlots
  THEN /\ histError' = "Maximum 3 languages allowed"
       /\ UNCHANGED <<isAuthenticated, dvars, generations, histLoading, loadCalls,
                      evars, tvars, svars>>
  ELSE /\ translating' = TRUE
       /\ histError' = ""
       /\ translateCalls' = translateCalls \cup
            {[id |-> gen.id, description |-> gen.final_description,
              languages |-> Langs(gen.id)]}
       /\ UNCHANGED <<isAuthenticated, dvars, generations, histLoading, loadCalls,
                      evars, translatingId, languageInputs, translations, svars>>

\* The translate button of the open panel:
\* disabled={translating || every slot blank}.
Translate ==
  \E i \in DOMAIN generations :
    /\ PanelShown(generations[i])
    /\ ~translating
    /\ ~AllBlank(generations[i].id)
    /\ handleTranslate(generations[i])

\* handleTranslate called for a record of the list, whatever the screen shows.
CallTranslate ==
  /\ Cardinality(translateCalls) < MaxCalls
  /\ \E i \in DOMAIN generations : handleTranslate(generations[i])

\* The answers of the Translation Service to a call: a text for each language
\* asked for.
Answers(c) == [Range(c.languages) -> Translated]

\* handleTranslate after generationApi.translate resolved:
\* setTranslations((prev) => ({ ...prev, [gen.id]: response.translations })).
TranslateDone(c, answer) ==
  /\ c \in translateCalls
  /\ translations' = With(translations, c.id, answer)
  /\ translating' = FALSE
  /\ translateCalls' = translateCalls \ {c}
  /\ UNCHANGED <<isAuthenticated, dvars, lvars, evars, translatingId,
                 languageInputs, svars>>

TranslateSuccess ==
  \E c \in translateCalls : \E answer \in Answers(c) : TranslateDone(c, answer)

\* handleTranslate after generationApi.translate rejected.
TranslateFailed ==
  \E c \in translateCalls, reported \in Reported :
    /\ histError' = ErrorText(reported, "Failed to translate description")
    /\ translating' = FALSE
    /\ translateCalls' = translateCalls \ {c}
    /\ UNCHANGED <<isAuthenticated, dvars, generations, histLoading, loadCalls,
                   evars, translatingId, languageInputs, translations, svars>>

(***************************************************************************)
(* History screen: specifications of the translation panel.                *)
(***************************************************************************)
\* A history of one record.
TranslateInit ==
  /\ HistoryMounted
  /\ stored = <<RecordA>>

\* The panel as the user drives it.
TranslateNext ==
  \/ LoadDone
  \/ LoadFailed
  \/ TogglePanel
  \/ ChangeLanguageInput
  \/ AddLanguage
  \/ RemoveLanguage
  \/ Translate
  \/ TranslateSuccess
  \/ TranslateFailed

SpecTranslate == TranslateInit /\ [][TranslateNext]_vars

\* The panel with handleTranslate called past its button.
TranslateCallNext ==
  \/ LoadDone
  \/ LoadFailed
  \/ TogglePanel
  \/ ChangeLanguageInput
  \/ AddLanguage
  \/ RemoveLanguage
  \/ CallTranslate
  \/ TranslateSuccess
  \/ TranslateFailed

SpecTranslateCall == TranslateInit /\ [][TranslateCallNext]_vars

\* The panels of a history of two records.
PanelsNext ==
  \/ LoadDone
  \/ LoadFailed
  \/ TogglePanel
  \/ ChangeLanguageInput
  \/ AddLanguage
  \/ RemoveLanguage

SpecPanels == EditInit /\ [][PanelsNext]_vars

\* addLanguageInput called for the open panel, whatever its add button
\* shows.
CallAddLanguage ==
  \E i \in DOMAIN generations :
    /\ PanelShown(generations[i])
    /\ addLanguageInput(generations[i].id)

\* removeLanguageInput called for a slot of the open panel, whatever its
\* remove button shows.
CallRemoveLanguage ==
  \E i \in DOMAIN generations :
    /\ PanelShown(generations[i])
    /\ \E index \in DOMAIN SlotsOr(generations[i].id, <<>>) :
         removeLanguageInput(generations[i].id, index)

\* handleTranslate called for the open panel when no slot is left.
CallTranslateNoSlot ==
  \E i \in DOMAIN generations :
    /\ PanelShown(generations[i])
    /\ Len(SlotsOr(generations[i].id, <<>>)) = 0
    /\ handleTranslate(generations[i])

\* The slot handlers of a history of two records, called past their buttons.
SlotsNext ==
  \/ LoadDone
  \/ LoadFailed
  \/ TogglePanel
  \/ ChangeLanguageInput
  \/ CallAddLanguage
  \/ CallRemoveLanguage
  \/ CallTranslateNoSlot

SpecSlots == EditInit /\ [][SlotsNext]_vars

(***************************************************************************)
(* The operations with a busy flag, every call of them settling.           *)
(***************************************************************************)
\* One of the two screens is mounted: the Generation screen of an
\* authenticated user with the required fields filled in, or the History
\* screen over one record.
BusyInit ==
  \/ /\ isAuthenticated = TRUE
     /\ HistoryIdle
     /\ form = [product_name |-> "Mug", product_category |-> "Home & Garden",
                target_audience |-> "adults", user_description |-> "",
                target_language |-> "English"]
     /\ description = ""
     /\ loading = FALSE
     /\ saving = FALSE
     /\ error = ""
     /\ saved = FALSE
     /\ images = <<>>
     /\ imagePreviews = <<>>
     /\ readers = {}
     /\ submitCalls = {}
     /\ saveCalls = {}
     /\ nextFile = 0
     /\ descGen = 0
     /\ descAttrs = EmptyObject
     /\ saveOk = [g \in 1..MaxGen |-> 0]
     /\ roundTripDone = FALSE
  \/ TranslateInit

BusyNext ==
  \/ Submit
  \/ SubmitSuccess
  \/ SubmitFail
  \/ Save
  \/ SaveSuccess
  \/ SaveFail
  \/ LoadDone
  \/ LoadFailed
  \/ Edit
  \/ CancelEdit
  \/ Regenerate
  \/ RegenerateDone
  \/ RegenerateFailed
  \/ TogglePanel
  \/ ChangeLanguageInput
  \/ Translate
  \/ TranslateSuccess
  \/ TranslateFailed

SpecBusy == BusyInit /\ [][BusyNext]_vars

\* Every service call in flight settles: its promise resolves or rejects, and
\* the continuation of the handler that awaits it runs.
CallsSettle ==
  /\ WF_vars(SubmitSuccess \/ SubmitFail)
  /\ WF_vars(SaveSuccess \/ SaveFail)
  /\ WF_vars(RegenerateDone \/ RegenerateFailed)
  /\ WF_vars(TranslateSuccess \/ TranslateFailed)

SpecBusyFair == SpecBusy /\ CallsSettle

(***************************************************************************)
(* Properties of the Draft Session.                                        *)
(***************************************************************************)

\* C1: a handleImageChange with c attachments and a batch holding n image-type
\* files (and any number of other files) succeeds, leaving exactly c + n
\* attachments and setting no error, if c + n <= 5; otherwise it leaves the
\* attachment list unchanged and sets an error.  The code counts the whole
\* batch, other files included, against the limit, so TLC refutes this.
C1_AddSucceedsIffImagesFit ==
  [][\A files \in Batches :
       HandleImageChange(files) =>
         LET c == Len(images)
             n == NumImages(files) IN
         IF c + n <= MaxImages
         THEN Len(images') = c + n /\ error' = error
         ELSE images' = images /\ error' # ""]_vars

C3_ListsEmptyAfterSuccessfulSubmit ==
  roundTripDone => images = <<>> /\ imagePreviews = <<>>

\* C4: no save call is ever issued while the draft is in the Saved state, and
\* no generated result gets more than one successful saveGeneration call.
C4_NoSaveOnceSaved ==
  /\ \A c \in saveCalls : ~c.savedAtCall
  /\ \A g \in 1..MaxGen : saveOk[g] <= 1

\* C4's case: the result shown has been saved; the save control is dead.
C4_Witness ==
  /\ isAuthenticated /\ saved /\ description # ""
  /\ descGen # 0 /\ saveOk[descGen] = 1
  /\ ~SaveButtonEnabled

\* C11: when the generate call of a submit succeeds, `description` is the
\* text the service returned, `loading` is cleared and the save-state is
\* "not saved", whether or not a result had been saved before.
C11_SubmitSuccessStoresText ==
  [][\A c \in submitCalls : \A text \in Texts :
       SubmitDone(c, text) =>
         /\ description' = text
         /\ ~loading'
         /\ ~saved']_vars

\* C11's case: a submit has succeeded after the result before it had been
\* saved; the result shown is not saved.
C11_Witness ==
  /\ description # "" /\ ~loading /\ ~saved
  /\ descGen # 0
  /\ \E g \in 1..MaxGen : g # descGen /\ saveOk[g] = 1

C13_OneGenerateInFlight ==
  /\ Cardinality(submitCalls) <= 1
  /\ submitCalls # {} => loading

\* C13's case: a generate call is in flight and the form is valid, so only
\* the disabled button keeps a second submit from starting.
C13_Witness ==
  /\ Cardinality(submitCalls) = 1
  /\ loading
  /\ FormValid

\* C14: every save call in flight was issued for an authenticated user with
\* a non-empty text and carries no image reference; the save-state turns
\* Saved only in the step in which a save call succeeds; a save call that
\* fails leaves the save-state "not saved" and `saving` cleared, so that
\* the save button is enabled while the result is shown.
C14_SaveOnlyWithResult ==
  [][/\ \A c \in saveCalls' :
          /\ isAuthenticated
          /\ c.final_description # ""
          /\ c.image_urls = <<>>
     /\ (~saved /\ saved') =>
          \E c \in saveCalls : saveCalls' = saveCalls \ {c} /\ error' = error
     /\ SaveFail =>
          /\ ~saved' /\ ~saving'
          /\ description' # "" => SaveButtonEnabled']_vars

\* C14's case: a save call has failed; the result is not saved and the save
\* button is enabled again.
C14_Witness ==
  /\ error = "Failed to save description. Please try again."
  /\ ~saved /\ ~saving /\ saveCalls = {}
  /\ SaveButtonEnabled

(***************************************************************************)
(* Properties of the History screen.                                       *)
(***************************************************************************)

\* C5: handleSaveUpdate calls the Persistence Service only if a regenerate
\* started in the edit session now open has succeeded and produced the
\* pending text: every save-update call was issued with such a text.  A
\* regenerate started in an earlier session (of this or of another record)
\* that completes in the session now open puts its text in the overlay, the
\* Save Update button appears and the call is made, so TLC refutes this.
C5_SaveUpdateNeedsRegenerateOfSession ==
  \A c \in updateCalls : c.inSession

\* The slots of a list that hold a language name: some piece is not a blank.
C6_Named(slots) ==
  {i \in DOMAIN slots : \E j \in DOMAIN slots[i] : slots[i][j] # " "}

\* A slot holding a name, from its first to its last piece that is not a blank.
C6_Name(s) ==
  LET w == {j \in DOMAIN s : s[j] # " "}
  IN  SubSeq(s, CHOOSE j \in w : \A k \in w : j <= k,
                CHOOSE j \in w : \A k \in w : k <= j)

\* The k-th smallest element of a set of numbers.
C6_Nth(S, k) == CHOOSE i \in S : Cardinality({j \in S : j < i}) = k - 1

\* C6: a handleTranslate on a record whose slots hold no language name, or
\* more than 3, issues no translate call, leaves the translating flag as it
\* is and leaves the translation mappings unchanged; otherwise it sets the
\* flag and a call is in flight whose languages are exactly the names of the
\* slots, trimmed, in slot order.
C6_TranslateValidatesSlots ==
  [][\A i \in DOMAIN generations :
       handleTranslate(generations[i]) =>
         LET slots == SlotsOr(generations[i].id, <<>>)
             named == C6_Named(slots) IN
         IF named = {} \/ Cardinality(named) > 3
         THEN /\ translateCalls' = translateCalls
              /\ translating' = translating
              /\ translations' = translations
         ELSE /\ translating'
              /\ \E c \in translateCalls' :
                   /\ c.id = generations[i].id
                   /\ Len(c.languages) = Cardinality(named)
                   /\ \A k \in 1..Len(c.languages) :
                        c.languages[k] = C6_Name(slots[C6_Nth(named, k)])]_vars

\* C6's case: a handleTranslate on slots that hold blanks only has been
\* rejected; no call is in flight and the mapping obtained before is there.
C6_Witness ==
  /\ histError = "Please enter at least one language"
  /\ translateCalls = {}
  /\ ~translating
  /\ RecordA.id \in DOMAIN languageInputs
  /\ \E i \in DOMAIN languageInputs[RecordA.id] :
       languageInputs[RecordA.id][i] = <<" ">>
  /\ RecordA.id \in DOMAIN translations

\* C7: at most one record of the list is in Editing state, and a handleEdit
\* on a record leaves that record as the only one editing, whichever record
\* was being edited before.  (No record is editing initially, so "every step
\* ends with at most one" is the invariant.)
C7_AtMostOneEditing ==
  [][/\ Cardinality({j \in DOMAIN generations' :
                       editingId' = generations'[j].id}) <= 1
     /\ \A i \in DOMAIN generations :
          handleEdit(generations[i]) =>
            {j \in DOMAIN generations' : editingId' = generations'[j].id} = {i}]_vars

\* C7's case: record B is being edited while the regenerate started in the
\* edit of record A is still in flight.
C7_Witness ==
  /\ editingId = RecordB.id
  /\ \E c \in regenCalls : c.request.product_name = RecordA.product_name

\* C8: when a translate call of a record succeeds, the languages of the
\* record's mapping that the answer does not hold keep their text, and the
\* languages of the answer take the returned text.  The code replaces the
\* record's mapping by the answer, so TLC refutes this.
C8_TranslationsMerged ==
  [][\A c \in translateCalls : \A answer \in Answers(c) :
       TranslateDone(c, answer) =>
         LET old == IF c.id \in DOMAIN translations
                    THEN translations[c.id] ELSE EmptyObject
             new == translations'[c.id] IN
         /\ \A l \in DOMAIN old \ DOMAIN answer :
              l \in DOMAIN new /\ new[l] = old[l]
         /\ \A l \in DOMAIN answer :
              l \in DOMAIN new /\ new[l] = answer[l]]_vars

C10_SaveUpdateOutcome ==
  [][/\ \A c \in updateCalls :
          UpdateSaved(c) =>
            /\ c.call \in {k.call : k \in reloadCalls'}
            /\ generations' = generations
            /\ editingId' = editingId /\ editForm' = editForm
     /\ \A k \in reloadCalls :
          ReloadDone(k) =>
            /\ generations' = stored
            /\ editingId' = NoId /\ editForm' = EmptyObject
     /\ \A c \in updateCalls : \A reported \in Reported :
          UpdateFailed(c, reported) =>
            /\ histError' # ""
            /\ editingId' = editingId /\ editForm' = editForm
            /\ \A i \in DOMAIN generations :
                 SaveUpdateShown(generations[i]) =>
                   /\ isAuthenticated /\ ~histLoading' /\ histError' = ""
                   /\ editingId' = generations'[i].id
                   /\ OrElse(editForm', "final_description", "") # ""]_vars

\* C15: handleDelete calls the service only after the user confirmed, and a
\* declined dialog changes nothing.  When the call succeeds the records of
\* that id leave the in-memory list, the other records stay in their order
\* and no load of the list is started; when it fails an error is set and the
\* list is unchanged.
C15_Kept(c) == {i \in 1..Len(generations) : generations[i].id # c.id}

C15_DeleteOutcome ==
  [][/\ Cardinality(deleteCalls) < MaxCalls =>
          \A i \in 1..Len(generations) :
            handleDelete(generations[i].id, FALSE) => UNCHANGED vars
     /\ deleteCalls' \ deleteCalls # {} =>
          \E i \in 1..Len(generations) : handleDelete(generations[i].id, TRUE)
     /\ \A c \in deleteCalls :
          DeleteDone(c) =>
            /\ Len(generations') = Cardinality(C15_Kept(c))
            /\ \A i \in C15_Kept(c) :
                 generations'[Cardinality({j \in C15_Kept(c) : j <= i})]
                   = generations[i]
            /\ loadCalls' = loadCalls /\ reloadCalls' = reloadCalls
            /\ histLoading' = histLoading /\ histError' = histError
     /\ \A c \in deleteCalls : \A reported \in Reported :
          DeleteFailed(c, reported) =>
            /\ histError' # ""
            /\ generations' = generations]_vars

\* The first of two records was deleted: the second is the whole list.
C15_Witness ==
  /\ generations = <<RecordB>>
  /\ stored = <<RecordB>>
  /\ deleteCalls = {}
  /\ Shown

\* C16: of each of save, regenerate, save-update and translate at most one
\* call is in flight at any time.
C16_OneCallOfEachKind ==
  /\ Cardinality(saveCalls) <= 1
  /\ Cardinality(regenCalls) <= 1
  /\ Cardinality(updateCalls) <= 1
  /\ Cardinality(translateCalls) <= 1

\* C17: a regenerate in flight for one record does not disable regenerate
\* on another: whenever the edit form of a record is shown and no regenerate
\* call of that record is in flight, its regenerate button is enabled.
C17_OtherRecordNotBlocked ==
  \A i \in DOMAIN generations :
    ( /\ Shown
      /\ Editing(generations[i])
      /\ \A c \in regenCalls :
           c.request.product_name # generations[i].product_name )
    => ~regenerating

\* C18: opening the translation panel of one record leaves the open panel
\* of another record open.
C18_PanelsStayOpen ==
  [][\A i, j \in DOMAIN generations :
       ( /\ generations[i].id # generations[j].id
         /\ PanelShown(generations[i])
         /\ ~PanelShown(generations[j])
         /\ Shown
         /\ toggleTranslationPanel(generations[j].id) )
       => (PanelShown(generations[i]))']_vars

\* C19: the request of a regenerate carries the record's product_name and,
\* for each edited field, the overlay's value whenever the overlay holds the
\* field (an empty user_description included), the stored value otherwise.
C19_RequestIsOverlayOverStored ==
  [][\A i \in DOMAIN generations :
       ( /\ Shown
         /\ Editing(generations[i])
         /\ ~regenerating
         /\ handleRegenerate(generations[i]) )
       => \E c \in regenCalls' \ regenCalls :
            /\ c.request.product_name = generations[i].product_name
            /\ \A k \in EditFields :
                 c.request[k] = IF k \in DOMAIN editForm
                                THEN editForm[k]
                                ELSE generations[i][k]]_vars

\* C20: when a regenerate call fails, the editing id and the overlay are
\* unchanged, `regenerating` is cleared, and the regenerate button of the
\* record being edited is there to be clicked again; when it succeeds, the
\* overlay's pending text is the text the call returned.
C20_RegenerateOutcome ==
  [][/\ \A c \in regenCalls : \A reported \in Reported :
          RegenerateRejected(c, reported) =>
            /\ editingId' = editingId /\ editForm' = editForm
            /\ ~regenerating'
            /\ \A i \in DOMAIN generations :
                 (Shown /\ Editing(generations[i])) =>
                   /\ isAuthenticated /\ ~histLoading' /\ histError' = ""
                   /\ editingId' = generations'[i].id
     /\ \A c \in regenCalls : \A text \in Texts :
          RegenerateResolved(c, text) =>
            /\ editForm'["final_description"] = text
            /\ ~regenerating']_vars

C22_OthersKept(id) ==
  \A o \in DOMAIN languageInputs \ {id} :
    o \in DOMAIN languageInputs' /\ languageInputs'[o] = languageInputs[o]

C23_BusyFlagsFollowCalls ==
  /\ [](/\ loading <=> submitCalls # {}
        /\ saving <=> saveCalls # {}
        /\ regenerating <=> regenCalls # {}
        /\ translating <=> translateCalls # {})
  /\ (loading ~> ~loading)
  /\ (saving ~> ~saving)
  /\ (regenerating ~> ~regenerating)
  /\ (translating ~> ~translating)

\* On the History screen a translate and then a regenerate have run and
\* returned: both flags are clear again.
C23_Witness ==
  /\ RecordA.id \in DOMAIN translations
  /\ HasPending
  /\ ~translating /\ translateCalls = {}
  /\ ~regenerating /\ regenCalls = {}

\* C24: whenever a result is shown as saved, a save call made for that very
\* result has succeeded.
C24_SavedIsTheShownResult ==
  (saved /\ description # "") => (descGen # 0 /\ saveOk[descGen] >= 1)

\* C25: every save call carries the attributes of the generate call that
\* returned the text it saves.
C25_SavedWithItsAttributes ==
  [][\A c \in saveCalls' \ saveCalls : c.attributes = descAttrs]_vars

\* C26: whenever a record is being edited and the overlay holds a pending
\* text, the regenerate call that returned the text was started in the edit
\* session now open.
C26_PendingTextOfThisSession ==
  (editingId # NoId /\ HasPending) => pendingInSession

\* C27: when the save-update of a record completes while another record is
\* the one being edited, the editing id and the overlay are left as they
\* are.
C27_CompletionClosesOwnSessionOnly ==
  [][\A k \in reloadCalls :
       (ReloadDone(k) /\ editingId # NoId /\ editingId # k.id) =>
         /\ editingId' = editingId
         /\ editForm' = editForm]_vars

\* C28: the editing id and the id of the open translation panel are each
\* absent or the id of a record of the in-memory list, and translations are
\* held only for records of the list.
C28_Listed(id) == \E i \in DOMAIN generations : generations[i].id = id

C28_IdsPointIntoList ==
  /\ editingId # NoId => C28_Listed(editingId)
  /\ translatingId # NoId => C28_Listed(translatingId)
  /\ \A id \in DOMAIN translations : C28_Listed(id)

\* C29: while the History screen reports an error and no load of the list is
\* running, some action of the user is enabled: a button or a control of the
\* screen can still be used.
C29_UserAction ==
  \/ Refresh
  \/ Edit
  \/ CancelEdit
  \/ SetEditField
  \/ Regenerate
  \/ SaveUpdate
  \/ Delete
  \/ TogglePanel
  \/ ChangeLanguageInput
  \/ AddLanguage
  \/ RemoveLanguage
  \/ Translate

C29_ErrorNeverBlocks ==
  (isAuthenticated /\ ~histLoading /\ histError # "") => ENABLED C29_UserAction

\* C30: the preview list is never longer than the attachment list, and when
\* no preview reader is running the i-th preview is the preview of the i-th
\* attachment.
C30_PreviewsFollowImages ==
  /\ Len(imagePreviews) <= Len(images)
  /\ readers = {} =>
       \A i \in DOMAIN imagePreviews : imagePreviews[i] = images[i]

=============================================================================
